---- MODULE Spec2Model ----
(***************************************************************************)
(* A model of tile-ortho: the tile grid generator (get_tiles), the YOLO    *)
(* label encoder / decoder, the alpha normalisation of a cropped raster,   *)
(* the two tiling pipelines and the reconstruction of detections.          *)
(*                                                                         *)
(* Python floats are modelled as exact rationals [n, d] in lowest terms,   *)
(* d > 0.  Geometries are axis-aligned rectangles [x1, y1, x2, y2].        *)
(***************************************************************************)
EXTENDS Integers, Sequences, FiniteSets, TLC

VARIABLES
    pc,                 \* position of the running script / generator
    areas,              \* get_tiles: the rows of the areas GeoDataFrame
    max_tile_width_m,   \* get_tiles: maximum inner tile width
    max_tile_height_m,  \* get_tiles: maximum inner tile height
    row,                \* get_tiles: number of rows iterated so far
    tiles,              \* get_tiles: the records yielded so far
    object_bbox,        \* convert_to_yolo_format: object bounding box
    img_bbox,           \* convert_to_yolo_format: image bounding box
    class_id,           \* convert_to_yolo_format: object class
    label,              \* the label line written
    decoded,            \* bboxes_from_yolo_output: (classes, polygons)
    src,                \* replace_geotiff_alpha: the raster at input_path
    dst,                \* replace_geotiff_alpha: the raster at output_path
    script,             \* the script whose main runs
    bounds,             \* main: geotiff_bounds(orthophoto)
    scale,              \* main: header["scale"], <<scale_x, scale_y>>
    max_tile_size_px,   \* main: maximum outer tile side in pixels
    buffer_m,           \* main: the overlap buffer
    bboxes_ref,         \* prepare_yolo_dataset: the reference annotations
    outdir,             \* main: the output directory
    images,             \* main: the image files written
    labels,             \* prepare_yolo_dataset: the label lines appended
    next,               \* main: index of the next row of the tile table
    tile_images,        \* combine_yolo_outputs: the files of tile_images_dir
    yolo_labels,        \* combine_yolo_outputs: the files of yolo_labels_dir
    objects,            \* the objects on the ground that YOLO looks at
    polygons_gdf_parts, \* combine_yolo_outputs: the parts kept so far
    outfile             \* combine_yolo_outputs: the shapefile written

tileVars == <<areas, max_tile_width_m, max_tile_height_m, row, tiles>>
yoloVars == <<object_bbox, img_bbox, class_id, label, decoded>>
alphaVars == <<src, dst>>
pipeInputs == <<script, bounds, scale, max_tile_size_px, buffer_m, bboxes_ref>>
pipeVars == <<pipeInputs, outdir, images, labels, next>>
combineVars ==
    <<tile_images, yolo_labels, objects, polygons_gdf_parts, outfile>>
vars == <<pc, tileVars, yoloVars, alphaVars, pipeVars, combineVars>>
\* what a run of one component leaves alone
notTileVars == <<yoloVars, alphaVars, pipeVars, combineVars>>
notYoloVars == <<tileVars, alphaVars, pipeVars, combineVars>>
notAlphaVars == <<tileVars, yoloVars, pipeVars, combineVars>>
notPipeVars == <<row, yoloVars, alphaVars, combineVars>>
notCombineVars ==
    <<row, yoloVars, alphaVars, script, scale, max_tile_size_px, bboxes_ref,
      outdir, images, labels>>

\* the value of a variable the running script does not use
Unused == "unused"
TilesUnused ==
    /\ areas = Unused /\ max_tile_width_m = Unused
    /\ max_tile_height_m = Unused /\ row = Unused /\ tiles = Unused
YoloUnused ==
    /\ object_bbox = Unused /\ img_bbox = Unused /\ class_id = Unused
    /\ label = Unused /\ decoded = Unused
AlphaUnused == src = Unused /\ dst = Unused
PipeUnused ==
    /\ script = Unused /\ bounds = Unused /\ scale = Unused
    /\ max_tile_size_px = Unused /\ buffer_m = Unused
    /\ bboxes_ref = Unused /\ outdir = Unused /\ images = Unused
    /\ labels = Unused /\ next = Unused
CombineUnused ==
    /\ tile_images = Unused /\ yolo_labels = Unused /\ objects = Unused
    /\ polygons_gdf_parts = Unused /\ outfile = Unused

(***************************************************************************)
(* Bounds of the model.                                                    *)
(***************************************************************************)
MaxK == 1        \* x coordinates of Area corners range over -MaxK..MaxK
MaxY == 1        \* y coordinates of Area corners range over 0..MaxY
MaxM == 2        \* whole maximum tile sizes range over 1..MaxM
MaxAreas == 1    \* rows of the areas table in one get_tiles run
MaxBands == 5    \* band counts of a raster range over 1..MaxBands
MaxPixels == 1   \* pixels of a raster
MaxPx == 2       \* maximum outer tile sides range over 1..MaxPx pixels
MaxBuf == 2      \* buffers range over -1/2, 0, 1/2 .. MaxBuf/2

(***************************************************************************)
(* Exact arithmetic standing for the float operations of the code.         *)
(***************************************************************************)
Abs(i) == IF i < 0 THEN -i ELSE i

RECURSIVE GCD(_, _)
GCD(a, b) == IF b = 0 THEN a ELSE GCD(b, a % b)

\* the rational n/d (d # 0) in lowest terms with a positive denominator
R(n, d) ==
    LET s == IF d < 0 THEN -1 ELSE 1
        g == GCD(Abs(n), Abs(d))
    IN  [n |-> (s * n) \div g, d |-> (s * d) \div g]

FromInt(i) == [n |-> i, d |-> 1]
Zero == FromInt(0)
RAdd(a, b) == R(a.n * b.d + b.n * a.d, a.d * b.d)
RSub(a, b) == R(a.n * b.d - b.n * a.d, a.d * b.d)
RMul(a, b) == R(a.n * b.n, a.d * b.d)
\* a / b; the callers guard b # 0 (Python raises ZeroDivisionError)
RDiv(a, b) == R(a.n * b.d, a.d * b.n)
RLe(a, b) == a.n * b.d <= b.n * a.d
RLt(a, b) == a.n * b.d < b.n * a.d
RMin(a, b) == IF RLe(a, b) THEN a ELSE b
RMax(a, b) == IF RLe(a, b) THEN b ELSE a

\* math.ceil: the least integer >= a
Ceil(a) == -((-a.n) \div a.d)

\* int(): truncation toward zero
IntFloor(a) == a.n \div a.d
PyInt(a) == IF a.n >= 0 THEN a.n \div a.d ELSE -((-a.n) \div a.d)

(***************************************************************************)
(* Rectangles.                                                             *)
(***************************************************************************)
\* shapely.geometry.box(minx, miny, maxx, maxy)
Box(x1, y1, x2, y2) == [x1 |-> x1, y1 |-> y1, x2 |-> x2, y2 |-> y2]

\* the empty geometry
Empty == [empty |-> TRUE]
IsEmpty(g) == g = Empty

\* geometry.intersection(other) of two rectangles (closed point sets)
Intersection(a, b) ==
    IF IsEmpty(a) \/ IsEmpty(b) THEN Empty
    ELSE LET x1 == RMax(a.x1, b.x1)
             y1 == RMax(a.y1, b.y1)
             x2 == RMin(a.x2, b.x2)
             y2 == RMin(a.y2, b.y2)
         IN  IF RLe(x1, x2) /\ RLe(y1, y2) THEN Box(x1, y1, x2, y2) ELSE Empty

\* a is contained in b
Within(a, b) ==
    IsEmpty(a) \/ (~IsEmpty(b) /\ RLe(b.x1, a.x1) /\ RLe(a.x2, b.x2)
                               /\ RLe(b.y1, a.y1) /\ RLe(a.y2, b.y2))

(***************************************************************************)
(* get_tiles                                                               *)
(***************************************************************************)
\* range(n): empty when n <= 0
Range(n) == 0 .. (n - 1)

\* f"{min_x_rounded}_{min_y_rounded}"
TileIdFloor(x, y) == ToString(IntFloor(x)) \o "_" \o ToString(IntFloor(y))
TileId(x, y) == ToString(PyInt(x)) \o "_" \o ToString(PyInt(y))

\* the four divisions of one row; any of them may raise ZeroDivisionError
RowRaises(a, mw, mh) ==
    LET width == RSub(a.geometry.x2, a.geometry.x1)
        height == RSub(a.geometry.y2, a.geometry.y1)
    IN  IF mw.n = 0 \/ mh.n = 0 THEN TRUE
        ELSE Ceil(RDiv(width, mw)) = 0 \/ Ceil(RDiv(height, mh)) = 0

NCols(a, mw) == Ceil(RDiv(RSub(a.geometry.x2, a.geometry.x1), mw))
NRows(a, mh) == Ceil(RDiv(RSub(a.geometry.y2, a.geometry.y1), mh))
TileWidthMax(a, mw) == mw
TileWidth(a, mw) == RDiv(RSub(a.geometry.x2, a.geometry.x1), FromInt(NCols(a, mw)))
TileHeight(a, mh) == RDiv(RSub(a.geometry.y2, a.geometry.y1), FromInt(NRows(a, mh)))

\* the record yielded for grid position (i, j) of row number k.  `cell' is
\* the box before its intersection with the Area, kept for the grid claims.
TileRecord(k, a, mw, mh, i, j) ==
    LET min_x == a.geometry.x1
        min_y == a.geometry.y1
        tw == TileWidth(a, mw)
        th == TileHeight(a, mh)
        x0 == RAdd(min_x, RMul(FromInt(i), tw))
        y0 == RAdd(min_y, RMul(FromInt(j), th))
        cell == Box(x0, y0,
                    RAdd(min_x, RMul(FromInt(i + 1), tw)),
                    RAdd(min_y, RMul(FromInt(j + 1), th)))
    IN  [tile_id |-> TileId(x0, y0),
         split |-> a.split,
         tile |-> Intersection(cell, a.geometry),
         cell |-> cell,
         row |-> k]

\* the records of one row, in the order of
\* itertools.product(range(n_cols), range(n_rows)): i outer, j inner
RowTiles(k, a, mw, mh) ==
    LET nc == NCols(a, mw)
        nr == NRows(a, mh)
    IN  IF Range(nc) = {} \/ Range(nr) = {} THEN <<>>
        ELSE [p \in 1 .. (nc * nr) |->
                 TileRecord(k, a, mw, mh, (p - 1) \div nr, (p - 1) % nr)]

(***************************************************************************)
(* The inputs of a get_tiles run.                                          *)
(***************************************************************************)
Splits == {"train"}
HalfUnit == R(1, 2)
XCoords == {FromInt(k) : k \in (-MaxK) .. MaxK}
YCoords == {FromInt(k) : k \in 0 .. MaxY}
Sizes == {HalfUnit} \cup {FromInt(k) : k \in 1 .. MaxM}

\* Area polygons: rectangles, a zero width or height included
AreaBoxes ==
    {b \in [x1 : XCoords, y1 : YCoords, x2 : XCoords, y2 : YCoords] :
        RLe(b.x1, b.x2) /\ RLe(b.y1, b.y2)}
AreaRows == [split : Splits, geometry : AreaBoxes]

\* the scenario of the specification: bbox (0,0,1000,1000), maximum 600
ScenarioArea ==
    [split |-> "train",
     geometry |-> Box(Zero, Zero, FromInt(1000), FromInt(1000))]
ScenarioMax == FromInt(600)

InitTiles ==
    /\ YoloUnused /\ AlphaUnused /\ PipeUnused /\ CombineUnused
    /\ pc = "iter"
    /\ row = 0
    /\ tiles = <<>>
    /\ \/ /\ areas \in UNION {[1 .. n -> AreaRows] : n \in 1 .. MaxAreas}
          /\ max_tile_width_m \in Sizes
          /\ max_tile_height_m \in Sizes
       \/ /\ areas = <<ScenarioArea>>
          /\ max_tile_width_m = ScenarioMax
          /\ max_tile_height_m = ScenarioMax

\* one iteration of `for _, row in areas.iterrows()': every tile of the row
GetTilesRow ==
    /\ pc = "iter"
    /\ row < Len(areas)
    /\ ~RowRaises(areas[row + 1], max_tile_width_m, max_tile_height_m)
    /\ tiles' = tiles \o RowTiles(row + 1, areas[row + 1],
                                  max_tile_width_m, max_tile_height_m)
    /\ row' = row + 1
    /\ UNCHANGED <<pc, areas, max_tile_width_m, max_tile_height_m, notTileVars>>

\* the iteration stops with ZeroDivisionError
GetTilesRaise ==
    /\ pc = "iter"
    /\ row < Len(areas)
    /\ RowRaises(areas[row + 1], max_tile_width_m, max_tile_height_m)
    /\ pc' = "raised"
    /\ row' = row + 1
    /\ UNCHANGED <<areas, max_tile_width_m, max_tile_height_m, tiles, notTileVars>>

\* the generator is exhausted
GetTilesReturn ==
    /\ pc = "iter"
    /\ row = Len(areas)
    /\ pc' = "done"
    /\ UNCHANGED <<tileVars, notTileVars>>

NextTiles == GetTilesRow \/ GetTilesRaise \/ GetTilesReturn

SpecTiles == InitTiles /\ [][NextTiles]_vars


(***************************************************************************)
(* Claims about get_tiles, checked under SpecTiles.                        *)
(***************************************************************************)
Width(b) == RSub(b.x2, b.x1)
Height(b) == RSub(b.y2, b.y1)
Positive(q) == q.n > 0

\* row k was iterated and did not raise
Yielded(k) == k \in 1 .. row /\ ~(pc = "raised" /\ k = row)
TilesOfRow(k) == SelectSeq(tiles, LAMBDA t : t.row = k)

\* n is the ceiling of w / m, stated without the model's Ceil
IsCeilOf(n, w, m) ==
    /\ RLe(w, RMul(FromInt(n), m))
    /\ RLt(RMul(FromInt(n - 1), m), w)

\* c is q cut toward zero / rounded down, stated without PyInt
IsTruncOf(c, q) ==
    IF q.n >= 0 THEN c * q.d <= q.n /\ q.n < (c + 1) * q.d
    ELSE (c - 1) * q.d < q.n /\ q.n <= c * q.d
IsFloorOf(c, q) == c * q.d <= q.n /\ q.n < (c + 1) * q.d
Near(q) == {(q.n \div q.d) - 1, q.n \div q.d, (q.n \div q.d) + 1}
TruncOf(q) == CHOOSE c \in Near(q) : IsTruncOf(c, q)
FloorOf(q) == CHOOSE c \in Near(q) : IsFloorOf(c, q)

\* the areas of the cells ts[lo] .. ts[hi] added up, by halves
RECURSIVE SumCellAreasBetween(_, _, _)
SumCellAreasBetween(ts, lo, hi) ==
    IF lo > hi THEN Zero
    ELSE IF lo = hi THEN RMul(Width(ts[lo].cell), Height(ts[lo].cell))
    ELSE LET mid == (lo + hi) \div 2
         IN  RAdd(SumCellAreasBetween(ts, lo, mid),
                  SumCellAreasBetween(ts, mid + 1, hi))
SumCellAreas(ts) == SumCellAreasBetween(ts, 1, Len(ts))

\* two boxes share interior points
InteriorsMeet(a, b) ==
    /\ RLt(RMax(a.x1, b.x1), RMin(a.x2, b.x2))
    /\ RLt(RMax(a.y1, b.y1), RMin(a.y2, b.y2))

GridOfRowExact(k) ==
    LET bb == areas[k].geometry
        ts == TilesOfRow(k)
        W == Width(bb)
        H == Height(bb)
    IN  \E nc \in 1 .. (Len(ts) + 1) : \E nr \in 1 .. (Len(ts) + 1) :
          /\ IsCeilOf(nc, W, max_tile_width_m)
          /\ IsCeilOf(nr, H, max_tile_height_m)
          /\ Len(ts) = nc * nr
          /\ \A p \in DOMAIN ts :
                /\ Width(ts[p].cell) = RDiv(W, FromInt(nc))
                /\ Height(ts[p].cell) = RDiv(H, FromInt(nr))
                /\ RLe(Width(ts[p].cell), max_tile_width_m)
                /\ RLe(Height(ts[p].cell), max_tile_height_m)
                /\ Within(ts[p].cell, bb)
          /\ \A p, q \in DOMAIN ts :
                p # q => ~InteriorsMeet(ts[p].cell, ts[q].cell)
          /\ SumCellAreas(ts) = RMul(W, H)

\* C1: for an Area whose bounding box has W > 0 and H > 0 and positive
\* maximum sizes, get_tiles emits ceil(W/mw) * ceil(H/mh) cells of width
\* W/n_cols <= mw and height H/n_rows <= mh; the cells lie in the bounding
\* box, no two share interior points and their areas add up to W * H, so
\* they cover the bounding box exactly.
C1_GridCoversBBox ==
    \A k \in 1 .. Len(areas) :
        (/\ Yielded(k)
         /\ Positive(Width(areas[k].geometry))
         /\ Positive(Height(areas[k].geometry))
         /\ Positive(max_tile_width_m)
         /\ Positive(max_tile_height_m))
        => GridOfRowExact(k)

\* an Area was cut into at least 2 x 2 cells narrower than the maximum
C1_Witness ==
    \E k \in 1 .. Len(areas) :
        /\ Yielded(k)
        /\ Len(TilesOfRow(k)) >= 4
        /\ \E p, q \in DOMAIN tiles :
              /\ tiles[p].cell.x1 # tiles[q].cell.x1
              /\ RLt(Width(tiles[p].cell), max_tile_width_m)
        /\ \E p, q \in DOMAIN tiles : tiles[p].cell.y1 # tiles[q].cell.y1

Degenerate(b) == Width(b) = Zero \/ Height(b) = Zero

\* C7: an Area whose bounding box has zero width or zero height does not
\* make get_tiles raise, and the Area still yields at least one tile record.
C7_DegenerateAreaYields ==
    \A k \in 1 .. row :
        Degenerate(areas[k].geometry)
        => (Yielded(k) /\ Len(TilesOfRow(k)) >= 1)

\* C8 as amended: every tile_id is "<a>_<b>" where a and b are the
\* coordinates of the cell's lower-left corner cut toward zero (int()), and
\* bbox (0,0,1000,1000) with maximum 600 yields exactly the ids 0_0, 0_500,
\* 500_0, 500_500.
C8_TileIdTruncated ==
    /\ \A p \in DOMAIN tiles :
          tiles[p].tile_id = ToString(TruncOf(tiles[p].cell.x1)) \o "_"
                                \o ToString(TruncOf(tiles[p].cell.y1))
    /\ (areas = <<ScenarioArea>> /\ pc = "done")
          => /\ Len(tiles) = 4
             /\ {tiles[p].tile_id : p \in DOMAIN tiles}
                    = {"0_0", "0_500", "500_0", "500_500"}

\* a tile whose cell origin is negative and fractional was emitted
C8_Witness ==
    \E p \in DOMAIN tiles : tiles[p].cell.x1.n < 0 /\ tiles[p].cell.x1.d > 1

\* C8 as stated: every tile_id is "<floor(x0)>_<floor(y0)>".
C8_TileIdFloored ==
    \A p \in DOMAIN tiles :
        tiles[p].tile_id = ToString(FloorOf(tiles[p].cell.x1)) \o "_"
                              \o ToString(FloorOf(tiles[p].cell.y1))

\* C9: when every emitted cell has positive width and height, no two
\* emitted tile records share a tile_id.
C9_TileIdsUnique ==
    (\A p \in DOMAIN tiles :
        Positive(Width(tiles[p].cell)) /\ Positive(Height(tiles[p].cell)))
    => \A p, q \in DOMAIN tiles :
          p # q => tiles[p].tile_id # tiles[q].tile_id


(***************************************************************************)
(* convert_to_yolo_format and bboxes_from_yolo_output                      *)
(***************************************************************************)
NumClasses == 4
ClassIds == 0 .. (NumClasses - 1)
Two == FromInt(2)

\* convert_to_yolo_format divides by img_width and img_height
ConvertRaises(img) == Width(img) = Zero \/ Height(img) = Zero

\* the label line "{class_id} {x_center} {y_center} {width} {height}"; the
\* fields are kept as values: repr() of a float read back by float() is the
\* same float, and str() of an int read back by int() the same int
ConvertToYoloFormat(obj, img, cls) ==
    LET img_width == RSub(img.x2, img.x1)
        img_height == RSub(img.y2, img.y1)
        obj_min_x_yolo == RDiv(RSub(obj.x1, img.x1), img_width)
        obj_max_x_yolo == RDiv(RSub(obj.x2, img.x1), img_width)
        obj_min_y_yolo == RDiv(RSub(img.y2, obj.y2), img_height)
        obj_max_y_yolo == RDiv(RSub(img.y2, obj.y1), img_height)
    IN  [class_id |-> cls,
         x_center |-> RDiv(RAdd(obj_min_x_yolo, obj_max_x_yolo), Two),
         y_center |-> RDiv(RAdd(obj_min_y_yolo, obj_max_y_yolo), Two),
         width |-> RSub(obj_max_x_yolo, obj_min_x_yolo),
         height |-> RSub(obj_max_y_yolo, obj_min_y_yolo)]

\* y_center = bounds[3] - float(parts[2]) * height
YCenterGeoNoFlip(bnds, y_center) ==
    RAdd(bnds.y1, RMul(y_center, RSub(bnds.y2, bnds.y1)))
YCenterGeo(bnds, y_center) ==
    RSub(bnds.y2, RMul(y_center, RSub(bnds.y2, bnds.y1)))

\* one line of bboxes_from_yolo_output: the class and the polygon's vertices
BboxFromYoloLine(line, bnds) ==
    LET width == RSub(bnds.x2, bnds.x1)
        height == RSub(bnds.y2, bnds.y1)
        x_center == RAdd(bnds.x1, RMul(line.x_center, width))
        y_center == YCenterGeo(bnds, line.y_center)
        box_width == RMul(line.width, width)
        box_height == RMul(line.height, height)
        x1 == RSub(x_center, RDiv(box_width, Two))
        y1 == RSub(y_center, RDiv(box_height, Two))
        x2 == RAdd(x_center, RDiv(box_width, Two))
        y2 == RAdd(y_center, RDiv(box_height, Two))
    IN  [class |-> line.class_id,
         polygon |-> <<<<x1, y1>>, <<x1, y2>>, <<x2, y2>>, <<x2, y1>>>>]

\* the file's lines in order
BboxesFromYoloOutput(lines, bnds) ==
    [p \in DOMAIN lines |-> BboxFromYoloLine(lines[p], bnds)]

\* polygon.bounds
PolygonBounds(poly) ==
    LET xs == {poly[p][1] : p \in DOMAIN poly}
        ys == {poly[p][2] : p \in DOMAIN poly}
    IN  Box(CHOOSE x \in xs : \A o \in xs : RLe(x, o),
            CHOOSE y \in ys : \A o \in ys : RLe(y, o),
            CHOOSE x \in xs : \A o \in xs : RLe(o, x),
            CHOOSE y \in ys : \A o \in ys : RLe(o, y))

\* bounding boxes (min_x, min_y, max_x, max_y), zero sizes included
BBoxes ==
    {b \in [x1 : XCoords, y1 : XCoords, x2 : XCoords, y2 : XCoords] :
        RLe(b.x1, b.x2) /\ RLe(b.y1, b.y2)}

InitYolo ==
    /\ TilesUnused /\ AlphaUnused /\ PipeUnused /\ CombineUnused
    /\ pc = "encode"
    /\ object_bbox \in BBoxes
    /\ img_bbox \in BBoxes
    /\ class_id \in ClassIds
    /\ label = <<>>
    /\ decoded = <<>>

\* convert_to_yolo_format returns the line, which is written to the file
Encode ==
    /\ pc = "encode"
    /\ ~ConvertRaises(img_bbox)
    /\ label' = <<ConvertToYoloFormat(object_bbox, img_bbox, class_id)>>
    /\ pc' = "decode"
    /\ UNCHANGED <<object_bbox, img_bbox, class_id, decoded, notYoloVars>>

\* ZeroDivisionError for an image box without width or height
EncodeRaise ==
    /\ pc = "encode"
    /\ ConvertRaises(img_bbox)
    /\ pc' = "raised"
    /\ UNCHANGED <<yoloVars, notYoloVars>>

\* bboxes_from_yolo_output reads the file against the same bounds
Decode ==
    /\ pc = "decode"
    /\ decoded' = BboxesFromYoloOutput(label, img_bbox)
    /\ pc' = "decoded"
    /\ UNCHANGED <<object_bbox, img_bbox, class_id, label, notYoloVars>>

NextYolo == Encode \/ EncodeRaise \/ Decode

SpecYolo == InitYolo /\ [][NextYolo]_vars

\* C2: for an image box of positive width and height and an object box
\* inside it, decoding the encoded label against the image box gives the
\* same class and a rectangle whose bounds are the object box.
C2_RoundTrip ==
    (/\ pc = "decoded"
     /\ Positive(Width(img_bbox)) /\ Positive(Height(img_bbox))
     /\ Within(object_bbox, img_bbox))
    => /\ Len(decoded) = 1
       /\ decoded[1].class = class_id
       /\ PolygonBounds(decoded[1].polygon) = object_bbox

\* a box of positive size, inside the image and off its centre line, went
\* through the round trip
C2_Witness ==
    /\ pc = "decoded"
    /\ Within(object_bbox, img_bbox)
    /\ object_bbox # img_bbox
    /\ Positive(Width(object_bbox)) /\ Positive(Height(object_bbox))
    /\ label[1].y_center # R(1, 2)
    /\ label[1].x_center # R(1, 2)


(***************************************************************************)
(* replace_geotiff_alpha                                                   *)
(***************************************************************************)
White == 255
PixelValues == {0, 1, White}
NoFile == "no file"

\* data = src.read(): one sequence of pixel values per band
Rasters ==
    UNION {[count : {c}, data : [1 .. c -> [1 .. MaxPixels -> PixelValues]]]
              : c \in 1 .. MaxBands}

\* alpha_mask = a == 0
AlphaMaskNotOpaque(a) == [p \in DOMAIN a |-> a[p] # White]
AlphaMask(a) == [p \in DOMAIN a |-> a[p] = 0]

\* band[alpha_mask] = 255
SetWhite(band, mask) ==
    [p \in DOMAIN band |-> IF mask[p] THEN White ELSE band[p]]

\* rgb_data of a 4-band raster: np.stack([r, g, b]) after the replacement
RgbOfRgba(data) ==
    LET alpha_mask == AlphaMask(data[4])
    IN  <<SetWhite(data[1], alpha_mask),
          SetWhite(data[2], alpha_mask),
          SetWhite(data[3], alpha_mask)>>

InitAlpha ==
    /\ TilesUnused /\ YoloUnused /\ PipeUnused /\ CombineUnused
    /\ pc = "open"
    /\ src \in Rasters
    /\ dst = NoFile

\* src.count == 4: the alpha band is dropped, transparent pixels made white
ReplaceAlphaRgba ==
    /\ pc = "open"
    /\ src.count = 4
    /\ dst' = [count |-> 3, data |-> RgbOfRgba(src.data)]
    /\ pc' = "written"
    /\ UNCHANGED <<src, notAlphaVars>>

\* src.count == 3: the data is written as read
ReplaceAlphaRgb ==
    /\ pc = "open"
    /\ src.count = 3
    /\ dst' = [count |-> 3, data |-> src.data]
    /\ pc' = "written"
    /\ UNCHANGED <<src, notAlphaVars>>

\* any other band count: ValueError before the output is opened
ReplaceAlphaRaise ==
    /\ pc = "open"
    /\ src.count \notin {3, 4}
    /\ pc' = "raised"
    /\ UNCHANGED <<src, dst, notAlphaVars>>

NextAlpha == ReplaceAlphaRgba \/ ReplaceAlphaRgb \/ ReplaceAlphaRaise

SpecAlpha == InitAlpha /\ [][NextAlpha]_vars

\* C10: a 4-band input gives a 3-band output in which a pixel with alpha 0
\* is (255,255,255) and any other pixel keeps its RGB; a 3-band input gives
\* a 3-band output with the same pixel values; any other band count raises
\* and no output is written.
C10_AlphaNormalised ==
    /\ (pc = "written" /\ src.count = 4)
          => /\ dst.count = 3 /\ Len(dst.data) = 3
             /\ \A p \in 1 .. MaxPixels : \A b \in 1 .. 3 :
                   dst.data[b][p] =
                       IF src.data[4][p] = 0 THEN 255 ELSE src.data[b][p]
    /\ (pc = "written" /\ src.count = 3)
          => dst.count = 3 /\ dst.data = src.data
    /\ src.count \notin {3, 4} => pc \in {"open", "raised"} /\ dst = NoFile

\* a 4-band raster with a transparent, non-white pixel was written
C10_Witness ==
    /\ pc = "written"
    /\ src.count = 4
    /\ \E p \in 1 .. MaxPixels :
          src.data[4][p] = 0 /\ src.data[1][p] # White


(***************************************************************************)
(* The tiling pipelines: scripts/tile_orthophoto.py and                    *)
(* scripts/prepare_yolo_dataset.py.  The raster and the shapefiles share   *)
(* one CRS; the pixel content of the crops is the subject of SpecAlpha.    *)
(***************************************************************************)
Scripts == {"tile_orthophoto", "prepare_yolo_dataset"}

\* geometry.buffer(distance, join_style=2): mitred corners keep a rectangle
\* a rectangle; a negative distance shrinks it, to nothing if it is eaten up
Buffer(g, d) ==
    IF IsEmpty(g) THEN Empty
    ELSE LET x1 == RSub(g.x1, d)
             y1 == RSub(g.y1, d)
             x2 == RAdd(g.x2, d)
             y2 == RAdd(g.y2, d)
         IN  IF RLt(x1, x2) /\ RLt(y1, y2) THEN Box(x1, y1, x2, y2) ELSE Empty

\* GeoDataFrame.clip(polygon): the rows that meet the polygon (a common
\* edge or corner counts), each cut to it
ClipNoCut(rows, mask) ==
    SelectSeq(rows, LAMBDA r : ~IsEmpty(Intersection(r.geometry, mask)))
Clip(rows, mask) ==
    LET cut == [p \in DOMAIN rows |->
                   [rows[p] EXCEPT !.geometry = Intersection(@, mask)]]
    IN  SelectSeq(cut, LAMBDA r : ~IsEmpty(r.geometry))

\* clip((minx, miny, maxx, maxy)): clipping by a rectangle leaves nothing of
\* a polygon that has no area inside it, and rows left empty are dropped
ClipByRect(g, rect) ==
    LET c == Intersection(g, rect)
    IN  IF IsEmpty(c) \/ Width(c) = Zero \/ Height(c) = Zero THEN Empty ELSE c
ClipRowsByRect(rows, rect) ==
    LET cut == [p \in DOMAIN rows |->
                   [rows[p] EXCEPT !.geometry = ClipByRect(@, rect)]]
    IN  SelectSeq(cut, LAMBDA r : ~IsEmpty(r.geometry))

\* get_tiles consumed to its end by the GeoDataFrame constructor
GetTilesRaises(as, mw, mh) == \E k \in DOMAIN as : RowRaises(as[k], mw, mh)
RECURSIVE GetTilesFrom(_, _, _, _)
GetTilesFrom(k, as, mw, mh) ==
    IF k > Len(as) THEN <<>>
    ELSE RowTiles(k, as[k], mw, mh) \o GetTilesFrom(k + 1, as, mw, mh)
GetTiles(as, mw, mh) == GetTilesFrom(1, as, mw, mh)

MaxOuterTileWidthM == RMul(scale[1], FromInt(max_tile_size_px))
MaxOuterTileHeightM == RMul(scale[2], FromInt(max_tile_size_px))
MaxInnerTileWidthM == RSub(MaxOuterTileWidthM, RMul(Two, buffer_m))
MaxInnerTileHeightM == RSub(MaxOuterTileHeightM, RMul(Two, buffer_m))

\* the two assert statements of tile_orthophoto.main
AssertsHold ==
    /\ RLt(RMul(Two, buffer_m), MaxOuterTileWidthM)
    /\ RLt(RMul(Two, buffer_m), MaxOuterTileHeightM)

\* tiles["outer_tile"] = tiles["inner_tile"].buffer(...).clip(bounds)
WithOuterTile(t) ==
    [tile_id |-> t.tile_id, split |-> t.split, row |-> t.row, cell |-> t.cell,
     tile_inner |-> t.tile,
     tile_outer |-> ClipByRect(Buffer(t.tile, buffer_m), bounds)]

\* the lines appended to the tile's label file, one per clipped annotation
LabelLines(k, t) ==
    LET trees == Clip(bboxes_ref, t.tile_outer)
    IN  [p \in DOMAIN trees |->
            [file |-> "tile_" \o t.tile_id \o ".txt",
             split |-> t.split,
             tile |-> k,
             line |-> ConvertToYoloFormat(trees[p].geometry, t.tile_outer,
                                          trees[p].class)]]

Scales == {HalfUnit, FromInt(1)}
Buffers == {R(k, 2) : k \in (-1) .. MaxBuf}
\* the raster spans [0, MaxK + 1] x [0, MaxY + 1]; Areas of positive size
\* reach one unit beyond it to the left and to the right
RasterBounds == Box(Zero, Zero, FromInt(MaxK + 1), FromInt(MaxY + 1))
PipeXCoords == {FromInt(k) : k \in (-1) .. (MaxK + 2)}
PipeYCoords == {FromInt(k) : k \in 0 .. (MaxY + 1)}
PipeAreaRows ==
    [split : Splits,
     geometry : {b \in [x1 : PipeXCoords, y1 : PipeYCoords,
                        x2 : PipeXCoords, y2 : PipeYCoords] :
                    RLt(b.x1, b.x2) /\ RLt(b.y1, b.y2)}]
TreeBoxes == {b \in AreaBoxes : Positive(Width(b)) /\ Positive(Height(b))}
\* the first and the last class
TreeClasses == {0, NumClasses - 1}
Trees == [class : TreeClasses, geometry : TreeBoxes]

InitPipe ==
    /\ YoloUnused /\ AlphaUnused /\ CombineUnused
    /\ pc = "load"
    /\ script \in Scripts
    /\ bounds = RasterBounds
    /\ scale \in Scales \X Scales
    /\ max_tile_size_px \in 1 .. MaxPx
    /\ buffer_m \in Buffers
    /\ areas \in [1 .. 1 -> PipeAreaRows]    \* a shapefile of one Area
    /\ IF script = "prepare_yolo_dataset"
       THEN bboxes_ref \in [1 .. 1 -> Trees]    \* one annotation
       ELSE bboxes_ref = <<>>
    /\ max_tile_width_m = Unused
    /\ max_tile_height_m = Unused
    /\ row = 0
    /\ tiles = <<>>
    /\ outdir = "old"
    /\ images = {}
    /\ labels = <<>>
    /\ next = 0

\* gpd.read_file(..., bbox=bounds).clip(bounds)
LoadData ==
    /\ pc = "load"
    /\ areas' = ClipRowsByRect(areas, bounds)
    /\ pc' = "split"
    /\ UNCHANGED <<max_tile_width_m, max_tile_height_m, tiles, pipeVars,
                   notPipeVars>>

\* tile_orthophoto: an assert fails with AssertionError
AssertFails ==
    /\ pc = "split"
    /\ script = "tile_orthophoto"
    /\ ~AssertsHold
    /\ pc' = "AssertionError"
    /\ UNCHANGED <<tileVars, pipeVars, notPipeVars>>

\* "Split into overlapping tiles": the tile table with inner and outer tiles
SplitIntoTiles ==
    /\ pc = "split"
    /\ script = "tile_orthophoto" => AssertsHold
    /\ ~GetTilesRaises(areas, MaxInnerTileWidthM, MaxInnerTileHeightM)
    /\ max_tile_width_m' = MaxInnerTileWidthM
    /\ max_tile_height_m' = MaxInnerTileHeightM
    /\ tiles' = LET ts == GetTiles(areas, MaxInnerTileWidthM,
                                   MaxInnerTileHeightM)
                IN  [p \in DOMAIN ts |-> WithOuterTile(ts[p])]
    /\ pc' = "outdir"
    /\ UNCHANGED <<areas, pipeVars, notPipeVars>>

\* get_tiles raises ZeroDivisionError while the table is built
SplitIntoTilesRaise ==
    /\ pc = "split"
    /\ script = "tile_orthophoto" => AssertsHold
    /\ GetTilesRaises(areas, MaxInnerTileWidthM, MaxInnerTileHeightM)
    /\ max_tile_width_m' = MaxInnerTileWidthM
    /\ max_tile_height_m' = MaxInnerTileHeightM
    /\ pc' = "ZeroDivisionError"
    /\ UNCHANGED <<areas, tiles, pipeVars, notPipeVars>>

\* tile_ortho.make_or_replace_dir(outdir) and the split directories
MakeOrReplaceDir ==
    /\ pc = "outdir"
    /\ outdir' = "replaced"
    /\ next' = 1
    /\ pc' = "crop"
    /\ UNCHANGED <<areas, max_tile_width_m, max_tile_height_m, tiles,
                   pipeInputs, images, labels, notPipeVars>>

\* one row of the tile table: the crop, and the labels of its annotations
CropTile ==
    /\ pc = "crop"
    /\ next <= Len(tiles)
    /\ ~IsEmpty(tiles[next].tile_outer)
    /\ images' = images \cup
          {[split |-> tiles[next].split,
            file |-> "tile_" \o tiles[next].tile_id \o ".tif"]}
    /\ labels' = IF script = "prepare_yolo_dataset"
                 THEN labels \o LabelLines(next, tiles[next])
                 ELSE labels
    /\ next' = next + 1
    /\ UNCHANGED <<pc, areas, max_tile_width_m, max_tile_height_m, tiles,
                   pipeInputs, outdir, notPipeVars>>

\* a row without outer tile: tile.boundary raises
CropTileRaise ==
    /\ pc = "crop"
    /\ next <= Len(tiles)
    /\ IsEmpty(tiles[next].tile_outer)
    /\ pc' = "AttributeError"
    /\ UNCHANGED <<tileVars, pipeVars, notPipeVars>>

\* every row is done (tile_orthophoto then saves the tile shapefiles)
Finish ==
    /\ pc = "crop"
    /\ next > Len(tiles)
    /\ pc' = "done"
    /\ UNCHANGED <<tileVars, pipeVars, notPipeVars>>

NextPipe ==
    \/ LoadData
    \/ AssertFails
    \/ SplitIntoTiles
    \/ SplitIntoTilesRaise
    \/ MakeOrReplaceDir
    \/ CropTile
    \/ CropTileRaise
    \/ Finish

SpecPipe == InitPipe /\ [][NextPipe]_vars


(***************************************************************************)
(* Claims about the pipelines, checked under SpecPipe.                     *)
(***************************************************************************)
\* the tile table exists; get_tiles has been called
TableBuilt == pc \in {"outdir", "crop", "done", "AttributeError"}
GetTilesCalled == TableBuilt \/ pc = "ZeroDivisionError"

\* C4: for every tile of either pipeline the inner geometry lies in the
\* outer geometry and the outer geometry lies in the raster bounds.
C4_Containment ==
    TableBuilt =>
        \A p \in DOMAIN tiles :
            /\ Within(tiles[p].tile_inner, tiles[p].tile_outer)
            /\ Within(tiles[p].tile_outer, bounds)

InUnit(q) == RLe(Zero, q) /\ RLe(q, FromInt(1))

\* the line is the box c measured against the box o, y downward from the top
LineOfBoxIn(line, c, o) ==
    /\ RAdd(o.x1, RMul(line.x_center, Width(o)))
          = RDiv(RAdd(c.x1, c.x2), Two)
    /\ RSub(o.y2, RMul(line.y_center, Height(o)))
          = RDiv(RAdd(c.y1, c.y2), Two)
    /\ RMul(line.width, Width(o)) = Width(c)
    /\ RMul(line.height, Height(o)) = Height(c)

\* C5: every label line written for a tile has x_center, y_center, width
\* and height in [0,1] and measures the annotation, cut to the outer tile,
\* against the outer tile's bounding box; every annotation that meets the
\* outer tile of a cropped row has such a line.
C5_LabelsInUnitRange ==
    /\ \A p \in DOMAIN labels :
          LET l == labels[p]
              o == tiles[l.tile].tile_outer
          IN  /\ InUnit(l.line.x_center) /\ InUnit(l.line.y_center)
              /\ InUnit(l.line.width) /\ InUnit(l.line.height)
              /\ \E r \in DOMAIN bboxes_ref :
                    /\ l.line.class_id = bboxes_ref[r].class
                    /\ ~IsEmpty(Intersection(bboxes_ref[r].geometry, o))
                    /\ LineOfBoxIn(l.line,
                                   Intersection(bboxes_ref[r].geometry, o), o)
    /\ (script = "prepare_yolo_dataset" /\ pc \in {"crop", "done"})
          => \A k \in 1 .. (next - 1) : \A r \in DOMAIN bboxes_ref :
                ~IsEmpty(Intersection(bboxes_ref[r].geometry,
                                      tiles[k].tile_outer))
                => \E p \in DOMAIN labels :
                      /\ labels[p].tile = k
                      /\ labels[p].line.class_id = bboxes_ref[r].class

\* a line was written for an annotation reaching beyond an outer tile that
\* is larger than its inner tile
C5_Witness ==
    \E p \in DOMAIN labels :
        LET t == tiles[labels[p].tile]
        IN  /\ t.tile_outer # t.tile_inner
            /\ \E r \in DOMAIN bboxes_ref :
                  /\ ~Within(bboxes_ref[r].geometry, t.tile_outer)
                  /\ Positive(labels[p].line.width)
                  /\ Positive(labels[p].line.height)

\* C6: when 2 * buffer is not below the maximum outer tile size on either
\* axis the run fails before a tile is generated, before the output
\* directory is replaced and before a crop; get_tiles is never given a
\* maximum inner size that is not positive.
C6_FailsFast ==
    /\ ~AssertsHold
          => /\ pc \in {"load", "split", "AssertionError"}
             /\ tiles = <<>> /\ outdir = "old" /\ images = {}
    /\ GetTilesCalled
          => Positive(max_tile_width_m) /\ Positive(max_tile_height_m)


(***************************************************************************)
(* Reconstruction: scripts/combine_yolo_outputs.py, run on the inner-tile  *)
(* shapefile and the tile images of a tiling run and on the label files    *)
(* YOLO wrote for those images.                                            *)
(***************************************************************************)
MaxTiles == 4    \* rows of the tile shapefile

\* tile_images_dir/f"tile_{tile_id}.tif", yolo_labels_dir/f"tile_{tile_id}.txt"
GeotiffPath(tile_id) == "tile_" \o tile_id \o ".tif"
LabelsPath(tile_id) == "tile_" \o tile_id \o ".txt"

\* geometry.centroid of a rectangle
Centroid(g) ==
    <<RDiv(RAdd(g.x1, g.x2), Two), RDiv(RAdd(g.y1, g.y2), Two)>>

\* the point meets the polygon, boundary included: the predicate by which
\* GeoSeries.clip(polygon) keeps a point
PointMeets(pt, g) ==
    /\ ~IsEmpty(g)
    /\ RLe(g.x1, pt[1]) /\ RLe(pt[1], g.x2)
    /\ RLe(g.y1, pt[2]) /\ RLe(pt[2], g.y2)

\* the rows of the tile's label file whose centroid the inner tile keeps
PolygonsGdfPart(t) ==
    LET bnds == tile_images[GeotiffPath(t.tile_id)]
        part == BboxesFromYoloOutput(yolo_labels[LabelsPath(t.tile_id)], bnds)
    IN  SelectSeq(part,
                  LAMBDA r : PointMeets(Centroid(PolygonBounds(r.polygon)),
                                        t.tile_inner))

\* pd.concat(parts, ignore_index=True)
RECURSIVE Concat(_)
Concat(parts) ==
    IF parts = <<>> THEN <<>> ELSE Head(parts) \o Concat(Tail(parts))

\* the bounds of the image the tiling run left under the name: the crop of
\* the last row of the tile table with that name
ImageWritten(name) ==
    LET ps == {p \in DOMAIN tiles : GeotiffPath(tiles[p].tile_id) = name}
        last == CHOOSE p \in ps : \A q \in ps : q <= p
    IN  tiles[last].tile_outer

\* the label file YOLO writes for an image: a line for every object that
\* the image shows whole
Detections(name) ==
    LET ps == {p \in DOMAIN tiles : LabelsPath(tiles[p].tile_id) = name}
        last == CHOOSE p \in ps : \A q \in ps : q <= p
        img == tiles[last].tile_outer
        seen == SelectSeq(objects, LAMBDA o : Within(o.geometry, img))
    IN  [p \in DOMAIN seen |->
            ConvertToYoloFormat(seen[p].geometry, img, seen[p].class)]

\* the tiling run behind the shapefile: one Area from the raster's lower
\* left corner, whole maximum inner tile sizes, a buffer of nothing or a half
CombineBuffers == {Zero, HalfUnit}
CombineAreaRows ==
    [split : Splits,
     geometry : {Box(Zero, Zero, FromInt(w), FromInt(h)) :
                    w \in 1 .. (MaxK + 1), h \in 1 .. (MaxY + 1)}]
WholeSizes == {FromInt(k) : k \in 1 .. MaxM}

\* objects one unit wide and high, centred on the half-unit grid, inside
\* the raster
HalfGrid(n) == {R(k, 2) : k \in 0 .. (2 * n)}
ObjectBoxes ==
    {b \in {Box(RSub(x, HalfUnit), RSub(y, HalfUnit),
                RAdd(x, HalfUnit), RAdd(y, HalfUnit)) :
               x \in HalfGrid(MaxK + 1), y \in HalfGrid(MaxY + 1)} :
        Within(b, RasterBounds)}
CombineObjects == [class : {0}, geometry : ObjectBoxes]

InitCombine ==
    /\ YoloUnused /\ AlphaUnused
    /\ script = Unused /\ scale = Unused /\ max_tile_size_px = Unused
    /\ bboxes_ref = Unused /\ outdir = Unused /\ images = Unused
    /\ labels = Unused /\ row = Unused
    /\ pc = "combine"
    /\ bounds = RasterBounds
    /\ buffer_m \in CombineBuffers
    /\ areas \in [1 .. 1 -> CombineAreaRows]
    /\ max_tile_width_m \in WholeSizes
    /\ max_tile_height_m \in WholeSizes
    /\ tiles = LET ts == GetTiles(areas, max_tile_width_m, max_tile_height_m)
               IN  [p \in DOMAIN ts |-> WithOuterTile(ts[p])]
    /\ Len(tiles) <= MaxTiles
    /\ objects \in [1 .. 1 -> CombineObjects]
    /\ \E missing \in SUBSET {GeotiffPath(tiles[p].tile_id) : p \in DOMAIN tiles} :
          tile_images =
              [n \in {GeotiffPath(tiles[p].tile_id) : p \in DOMAIN tiles}
                        \ missing |-> ImageWritten(n)]
    /\ \E missing \in SUBSET {LabelsPath(tiles[p].tile_id) : p \in DOMAIN tiles} :
          yolo_labels =
              [n \in {LabelsPath(tiles[p].tile_id) : p \in DOMAIN tiles}
                        \ missing |-> Detections(n)]
    /\ polygons_gdf_parts = <<>>
    /\ outfile = NoFile
    /\ next = 1

\* geotiff_path.exists() and labels_path.exists()
BothExist(t) ==
    /\ GeotiffPath(t.tile_id) \in DOMAIN tile_images
    /\ LabelsPath(t.tile_id) \in DOMAIN yolo_labels

\* a row of the shapefile without its image or its label file: continue
CombineSkip ==
    /\ pc = "combine"
    /\ next <= Len(tiles)
    /\ ~BothExist(tiles[next])
    /\ next' = next + 1
    /\ UNCHANGED <<pc, areas, max_tile_width_m, max_tile_height_m, tiles,
                   bounds, buffer_m, combineVars, notCombineVars>>

\* a row with both files: its detections, clipped by centroid, are a part
CombineTile ==
    /\ pc = "combine"
    /\ next <= Len(tiles)
    /\ BothExist(tiles[next])
    /\ polygons_gdf_parts' =
          Append(polygons_gdf_parts, PolygonsGdfPart(tiles[next]))
    /\ next' = next + 1
    /\ UNCHANGED <<pc, areas, max_tile_width_m, max_tile_height_m, tiles,
                   bounds, buffer_m, tile_images, yolo_labels, objects,
                   outfile, notCombineVars>>

\* pd.concat of the parts, written to outfile
CombineSave ==
    /\ pc = "combine"
    /\ next > Len(tiles)
    /\ polygons_gdf_parts # <<>>
    /\ outfile' = Concat(polygons_gdf_parts)
    /\ pc' = "done"
    /\ UNCHANGED <<areas, max_tile_width_m, max_tile_height_m, tiles,
                   bounds, buffer_m, next, tile_images, yolo_labels, objects,
                   polygons_gdf_parts, notCombineVars>>

\* pd.concat of an empty list raises ValueError
CombineSaveRaise ==
    /\ pc = "combine"
    /\ next > Len(tiles)
    /\ polygons_gdf_parts = <<>>
    /\ pc' = "ValueError"
    /\ UNCHANGED <<areas, max_tile_width_m, max_tile_height_m, tiles,
                   bounds, buffer_m, next, combineVars, notCombineVars>>

NextCombine == CombineSkip \/ CombineTile \/ CombineSave \/ CombineSaveRaise

SpecCombine == InitCombine /\ [][NextCombine]_vars


(***************************************************************************)
(* Claims about the reconstruction, checked under SpecCombine.             *)
(***************************************************************************)
\* the rows of the output that are the object
Attributions(o) ==
    Cardinality({p \in DOMAIN outfile :
                    /\ outfile[p].class = o.class
                    /\ PolygonBounds(outfile[p].polygon) = o.geometry})

\* the tiles whose image shows the object whole
TilesShowing(o) ==
    {k \in DOMAIN tiles : Within(o.geometry, tiles[k].tile_outer)}

\* C3: an object whose centroid lies in the tiled Area, detected in every
\* outer tile that shows it, one of them a tile whose inner geometry holds
\* the centroid, is in the output exactly once: it is attributed to exactly
\* one tile.
C3_AttributedToOneTile ==
    pc = "done" =>
        \A p \in DOMAIN objects :
            LET o == objects[p]
                c == Centroid(o.geometry)
            IN  (/\ PointMeets(c, areas[1].geometry)
                 /\ \A k \in TilesShowing(o) : BothExist(tiles[k])
                 /\ \E k \in TilesShowing(o) : PointMeets(c, tiles[k].tile_inner))
                => Attributions(o) = 1

\* the centroid-clipped detections of the rows from k on that have both
\* files, in the order of the shapefile
RECURSIVE KeptFrom(_)
KeptFrom(k) ==
    IF k > Len(tiles) THEN <<>>
    ELSE (IF BothExist(tiles[k]) THEN PolygonsGdfPart(tiles[k]) ELSE <<>>)
            \o KeptFrom(k + 1)

\* C11: whichever tiles lack their image or their label file, from none of
\* them to all of them, the run raises no error, and the output of a
\* completed run is exactly the centroid-clipped detections of the tiles
\* that have both files.
C11_MissingTilesSkipped ==
    /\ pc \in {"combine", "done"}
    /\ pc = "done" => outfile = KeptFrom(1)

====
